---- MODULE Spec2Model ----
(***************************************************************************)
(* Plugin marketplace: PluginLoader (src/core/plugin-loader.ts) and        *)
(* Marketplace (src/core/marketplace.ts).                                  *)
(*                                                                         *)
(* Text is a sequence of one-character strings, so that the loader's       *)
(* string operations (endsWith, replace, match, split, trim, indexOf) are  *)
(* computed character by character as the code computes them.              *)
(***************************************************************************)
EXTENDS Naturals, Integers, Sequences, FiniteSets, TLC

\* ------------------------------------------------------------------------
\* Bounds of the model
\* ------------------------------------------------------------------------
MaxDirs == 2
MaxFsChanges == 1

\* ------------------------------------------------------------------------
\* Text helpers (JavaScript String methods)
\* ------------------------------------------------------------------------
NL == "\n"

Min(S) == CHOOSE x \in S : \A y \in S : x <= y

\* s.startsWith(p, i-1), 1-based position i
MatchAt(s, p, i) ==
  /\ i >= 1
  /\ i + Len(p) - 1 <= Len(s)
  /\ \A k \in 1..Len(p) : s[i + k - 1] = p[k]

\* s.indexOf(p, from-1) as a 1-based position, 0 when there is none
IndexOf(s, p, from) ==
  LET hits == {i \in from..(Len(s) + 1) : MatchAt(s, p, i)}
  IN IF hits = {} THEN 0 ELSE Min(hits)

\* s.endsWith(suf)
EndsWith(s, suf) ==
  /\ Len(suf) <= Len(s)
  /\ MatchAt(s, suf, Len(s) - Len(suf) + 1)

\* s.substring(a-1, b) : characters a..b
Sub(s, a, b) == IF a > b THEN <<>> ELSE SubSeq(s, a, b)

\* s.replace(p, r) with a string pattern and a replacement free of "$":
\* the first occurrence only
ReplaceFirst(s, p, r) ==
  LET i == IndexOf(s, p, 1)
  IN IF i = 0 THEN s
     ELSE Sub(s, 1, i - 1) \o r \o Sub(s, i + Len(p), Len(s))

IsSpace(c) == c \in {" ", NL}

\* s.trim()
Trim(s) ==
  LET keep == {i \in 1..Len(s) : ~IsSpace(s[i])}
  IN IF keep = {} THEN <<>>
     ELSE Sub(s, Min(keep), CHOOSE x \in keep : \A y \in keep : y <= x)

\* s.split(sep) for a one-character separator
RECURSIVE Split(_, _)
Split(s, sep) ==
  LET i == IndexOf(s, <<sep>>, 1)
  IN IF i = 0 THEN <<s>>
     ELSE <<Sub(s, 1, i - 1)>> \o Split(Sub(s, i + 1, Len(s)), sep)

\* ------------------------------------------------------------------------
\* PluginLoader.parseFrontmatter
\* ------------------------------------------------------------------------
Delim == <<"-", "-", "-">>
OpenDelim == Delim \o <<NL>>
CloseDelim == <<NL>> \o Delim \o <<NL>>

frontmatterLineLastColon(line) ==
  LET colons == {i \in 1..Len(line) : line[i] = ":"}
      colonIndex == IF colons = {} THEN 0
                    ELSE CHOOSE x \in colons : \A y \in colons : y <= x
  IN IF colonIndex > 1
     THEN [has |-> TRUE,
           key |-> Trim(Sub(line, 1, colonIndex - 1)),
           value |-> Trim(Sub(line, colonIndex + 1, Len(line)))]
     ELSE [has |-> FALSE, key |-> <<>>, value |-> <<>>]

\* One line of the header block: [has, key, value]
frontmatterLine(line) ==
  LET colonIndex == IndexOf(line, <<":">>, 1)
  IN IF colonIndex > 1
     THEN [has |-> TRUE,
           key |-> Trim(Sub(line, 1, colonIndex - 1)),
           value |-> Trim(Sub(line, colonIndex + 1, Len(line)))]
     ELSE [has |-> FALSE, key |-> <<>>, value |-> <<>>]

ProtoKey == <<"_", "_", "p", "r", "o", "t", "o", "_", "_">>

\* The header map as the sequence of assignments frontmatter[key] = value
\* that take effect: on a plain object, assigning a string to __proto__
\* creates no property
frontmatterPairs(text) ==
  LET lines == Split(text, NL)
  IN SelectSeq([i \in 1..Len(lines) |-> frontmatterLine(lines[i])],
               LAMBDA e : e.has /\ e.key # ProtoKey)

\* frontmatter[key]: the last assignment wins; undefined is has = FALSE
fmGet(pairs, key) ==
  LET idx == {i \in 1..Len(pairs) : pairs[i].key = key}
  IN IF idx = {} THEN [has |-> FALSE, value |-> <<>>]
     ELSE [has |-> TRUE,
           value |-> pairs[CHOOSE x \in idx : \A y \in idx : y <= x].value]

parseFrontmatterGreedy(content) ==
  LET hits == {i \in (Len(OpenDelim) + 1)..Len(content) :
                 MatchAt(content, CloseDelim, i)}
      close == IF MatchAt(content, OpenDelim, 1) /\ hits # {}
               THEN CHOOSE x \in hits : \A y \in hits : y <= x
               ELSE 0
  IN IF close = 0
     THEN [frontmatter |-> <<>>, body |-> content]
     ELSE [frontmatter |->
             frontmatterPairs(Sub(content, Len(OpenDelim) + 1, close - 1)),
           body |-> Sub(content, close + Len(CloseDelim), Len(content))]

\* /^---\n([\s\S]*?)\n---\n([\s\S]*)$/ : the lazy group ends at the first
\* closing delimiter at or after the end of the opening one
parseFrontmatter(content) ==
  LET close == IF MatchAt(content, OpenDelim, 1)
               THEN IndexOf(content, CloseDelim, Len(OpenDelim) + 1)
               ELSE 0
  IN IF close = 0
     THEN [frontmatter |-> <<>>, body |-> content]
     ELSE [frontmatter |->
             frontmatterPairs(Sub(content, Len(OpenDelim) + 1, close - 1)),
           body |-> Sub(content, close + Len(CloseDelim), Len(content))]

\* ------------------------------------------------------------------------
\* PluginLoader.parseArgumentHint
\* ------------------------------------------------------------------------
\* hint.match(/\[([^\]]+)\]/g): the matches from position i on, left to right
RECURSIVE hintMatches(_, _)
hintMatches(hint, i) ==
  IF i > Len(hint) THEN <<>>
  ELSE IF hint[i] # "[" THEN hintMatches(hint, i + 1)
  ELSE LET close == IndexOf(hint, <<"]">>, i + 1)
       IN IF close = 0 THEN <<>>
          ELSE IF close = i + 1 THEN hintMatches(hint, i + 1)
          ELSE <<Sub(hint, i, close)>> \o hintMatches(hint, close + 1)

\* arg.replace(/[\[\]]/g, '')
stripBrackets(arg) == SelectSeq(arg, LAMBDA c : c \notin {"[", "]"})

NoParameters == [defined |-> FALSE, list |-> <<>>]

hintParameterNoneRequired(hint, arg, index) ==
  LET name == stripBrackets(arg)
  IN [name |-> name,
      type |-> "string",
      description |-> name \o <<" ", "p", "a", "r", "a", "m", "e", "t", "e", "r">>,
      required |-> FALSE,
      hasDefault |-> FALSE,
      default |-> <<>>]

hintParameter(hint, arg, index) ==
  LET name == stripBrackets(arg)
      isOptional == IndexOf(hint, arg, 1) > IndexOf(hint, <<"[">>, 1)
                    /\ index > 0
  IN [name |-> name,
      type |-> "string",
      description |-> name \o <<" ", "p", "a", "r", "a", "m", "e", "t", "e", "r">>,
      required |-> (index = 0 /\ ~isOptional),
      hasDefault |-> FALSE,
      default |-> <<>>]

parseArgumentHintEmptyList(hint) ==
  IF ~hint.has \/ hint.value = <<>> THEN NoParameters
  ELSE LET args == hintMatches(hint.value, 1)
       IN [defined |-> TRUE,
           list |-> [k \in 1..Len(args) |->
                       hintParameter(hint.value, args[k], k - 1)]]

\* hint is [has, value]; the result is [defined, list]
parseArgumentHint(hint) ==
  IF ~hint.has \/ hint.value = <<>> THEN NoParameters
  ELSE LET args == hintMatches(hint.value, 1)
       IN IF args = <<>> THEN NoParameters
          ELSE [defined |-> TRUE,
                list |-> [k \in 1..Len(args) |->
                            hintParameter(hint.value, args[k], k - 1)]]

\* ------------------------------------------------------------------------
\* Data model: texts, metadata files, command directories
\* ------------------------------------------------------------------------
NameA == <<"a">>
NameB == <<"b">>
V1 == <<"1">>
V2 == <<"2">>
DescText == <<"d">>
MdExt == <<".", "m", "d">>
KeyDescription == <<"d", "e", "s", "c", "r", "i", "p", "t", "i", "o", "n">>
KeyArgumentHint ==
  <<"a", "r", "g", "u", "m", "e", "n", "t", "-", "h", "i", "n", "t">>
CommandSuffix == <<" ", "c", "o", "m", "m", "a", "n", "d">>

\* CommandDefinition (plugin-loader.ts:25-30)
CommandDefinition(name, description, prompt, parameters) ==
  [name |-> name, description |-> description, prompt |-> prompt,
   parameters |-> parameters]

\* CommandParameter (plugin-loader.ts:32-38)
CommandParameter(name, type, description, required, hasDefault, default) ==
  [name |-> name, type |-> type, description |-> description,
   required |-> required, hasDefault |-> hasDefault, default |-> default]

\* The parsed content of .claude-plugin/plugin.json, or why there is none.
\* A text field that is absent and one that is "" are both <<>>: the code
\* only tests them for truthiness.
\* commandsIs tells what the "commands" property is: "absent", a "list"
\* (commands holds it) or "other" (a string, a number, an object).
MetaFile(st, name, version, description, commands) ==
  [st |-> st, name |-> name, version |-> version,
   description |-> description, commands |-> commands, commandsIs |-> "list",
   id |-> <<>>]

MetaFileWith(name, version, description, commandsIs) ==
  [MetaFile("json", name, version, description, <<>>)
     EXCEPT !.commandsIs = commandsIs]

MetaMissing == MetaFile("missing", <<>>, <<>>, <<>>, <<>>)
MetaGarbage == MetaFile("garbage", <<>>, <<>>, <<>>, <<>>)

\* One entry of a commands/ directory
CommandFile(name, readable, content) ==
  [name |-> name, readable |-> readable, content |-> content]

CmdsAbsent == [kind |-> "absent", files |-> <<>>]
CmdsDir(files) == [kind |-> "dir", files |-> files]

\* One entry of the plugins root
Entry(kind, meta, cmds) == [kind |-> kind, meta |-> meta, cmds |-> cmds]

\* "---\nargument-hint: [n]\n---\nHi {{n}}"
ContentHi ==
  OpenDelim \o KeyArgumentHint \o <<":", " ", "[", "n", "]">> \o CloseDelim
  \o <<"H", "i", " ", "{", "{", "n", "}", "}">>

\* "---\ndescription: d\nargument-hint: [x] [y]\n---\n{{x}}+{{y}}"
ContentXY ==
  OpenDelim \o KeyDescription \o <<":", " ", "d", NL>>
  \o KeyArgumentHint \o <<":", " ", "[", "x", "]", " ", "[", "y", "]">>
  \o CloseDelim
  \o <<"{", "{", "x", "}", "}", "+", "{", "{", "y", "}", "}">>

\* no header block
ContentPlain == <<"Y", "o">>

FileH == CommandFile(<<"h">> \o MdExt, TRUE, ContentHi)
FileG == CommandFile(<<"g">> \o MdExt, TRUE, ContentXY)
FileP == CommandFile(<<"p">> \o MdExt, TRUE, ContentPlain)
FileTxt == CommandFile(<<"r", ".", "t", "x", "t">>, FALSE, ContentPlain)
FileLocked == CommandFile(<<"h">> \o MdExt, FALSE, ContentHi)

\* The explicit schema of the README ("Command with Parameters"): command h
\* with parameter n defaulting to "f", and command k that has no file
DeclaredCommands ==
  << CommandDefinition(<<"h">>, <<"D">>, <<>>,
       [defined |-> TRUE,
        list |-> <<CommandParameter(<<"n">>, "string", <<"N">>, FALSE,
                                    TRUE, <<"f">>)>>]),
     CommandDefinition(<<"k">>, <<"K">>, <<>>, NoParameters) >>

E_None == Entry("none", MetaMissing, CmdsAbsent)
E_File == Entry("file", MetaMissing, CmdsAbsent)
E_NoMeta == Entry("dir", MetaMissing, CmdsDir(<<FileP>>))
E_Garbage == Entry("dir", MetaGarbage, CmdsDir(<<FileP>>))
E_Invalid ==
  Entry("dir", MetaFile("json", NameB, V1, <<>>, <<>>), CmdsDir(<<FileP>>))
E_A1 ==
  Entry("dir", MetaFile("json", NameA, V1, DescText, <<>>),
        CmdsDir(<<FileH, FileTxt>>))
E_A2 ==
  Entry("dir", MetaFile("json", NameA, V2, DescText, DeclaredCommands),
        CmdsDir(<<FileH, FileG>>))
E_B1 == Entry("dir", MetaFile("json", NameB, V1, DescText, <<>>), CmdsAbsent)
E_BLocked ==
  Entry("dir", MetaFile("json", NameB, V1, DescText, <<>>),
        CmdsDir(<<FileP, FileLocked>>))

DirEntries ==
  {E_None, E_File, E_NoMeta, E_Garbage, E_Invalid, E_A1, E_A2, E_B1,
   E_BLocked}

\* ------------------------------------------------------------------------
\* PluginLoader: loading one candidate
\* ------------------------------------------------------------------------
\* PluginLoader.validateMetadata
validateMetadata(metadata) ==
  /\ metadata.name # <<>>
  /\ metadata.version # <<>>
  /\ metadata.description # <<>>

\* The body of the loop of loadCommandPrompts for one .md file
discoverCommand(file) ==
  LET commandName == ReplaceFirst(file.name, MdExt, <<>>)
      parsed == parseFrontmatter(file.content)
      description == fmGet(parsed.frontmatter, KeyDescription)
  IN CommandDefinition(
       commandName,
       IF description.has /\ description.value # <<>>
       THEN description.value ELSE commandName \o CommandSuffix,
       parsed.body,
       parseArgumentHint(fmGet(parsed.frontmatter, KeyArgumentHint)))

\* PluginLoader.loadCommandPrompts: [threw, commands]; the commands declared
\* in the metadata are discarded in every branch
loadCommandPrompts(metadata, cmds) ==
  IF cmds.kind = "absent" THEN [threw |-> FALSE, commands |-> <<>>]
  ELSE LET commandFiles ==
             SelectSeq(cmds.files, LAMBDA f : EndsWith(f.name, MdExt))
       IN IF \E i \in 1..Len(commandFiles) : ~commandFiles[i].readable
          THEN [threw |-> TRUE, commands |-> <<>>]
          ELSE [threw |-> FALSE,
                commands |-> [i \in 1..Len(commandFiles) |->
                                discoverCommand(commandFiles[i])]]

\* LoadedPlugin (plugin-loader.ts:40-44)
LoadedPlugin(name, version, description, commands, path, enabled) ==
  [metadata |-> [name |-> name, version |-> version,
                 description |-> description, commands |-> commands],
   path |-> path, enabled |-> enabled]

NoPlugin == LoadedPlugin(<<>>, <<>>, <<>>, <<>>, 0, FALSE)

loadPluginDisabled(path, entry) ==
  IF entry.kind # "dir" \/ entry.meta.st = "missing"
  THEN [kind |-> "null", plugin |-> NoPlugin]
  ELSE IF entry.meta.st = "garbage"
  THEN [kind |-> "throw", plugin |-> NoPlugin]
  ELSE IF ~validateMetadata(entry.meta)
  THEN [kind |-> "null", plugin |-> NoPlugin]
  ELSE LET r == loadCommandPrompts(entry.meta, entry.cmds)
       IN IF r.threw THEN [kind |-> "throw", plugin |-> NoPlugin]
          ELSE [kind |-> "ok",
                plugin |-> LoadedPlugin(entry.meta.name, entry.meta.version,
                                        entry.meta.description, r.commands,
                                        path, FALSE)]

\* PluginLoader.loadPlugin: kind is "ok" (a LoadedPlugin), "null" or "throw"
loadPlugin(path, entry) ==
  IF entry.kind # "dir" \/ entry.meta.st = "missing"
  THEN [kind |-> "null", plugin |-> NoPlugin]
  ELSE IF entry.meta.st = "garbage"
  THEN [kind |-> "throw", plugin |-> NoPlugin]
  ELSE IF ~validateMetadata(entry.meta)
  THEN [kind |-> "null", plugin |-> NoPlugin]
  ELSE LET r == loadCommandPrompts(entry.meta, entry.cmds)
       IN IF r.threw THEN [kind |-> "throw", plugin |-> NoPlugin]
          ELSE [kind |-> "ok",
                plugin |-> LoadedPlugin(entry.meta.name, entry.meta.version,
                                        entry.meta.description, r.commands,
                                        path, TRUE)]

\* ------------------------------------------------------------------------
\* PluginLoader: the plugins Map, in insertion order
\* ------------------------------------------------------------------------
\* Map.get(name) as the position of the entry, 0 when there is none
mapIndex(map, name) ==
  LET idx == {i \in 1..Len(map) : map[i].metadata.name = name}
  IN IF idx = {} THEN 0 ELSE Min(idx)

\* this.plugins.set(plugin.metadata.name, plugin): an existing key keeps its
\* position and takes the new value, a new key is appended
mapSetKeepFirst(map, plugin) ==
  LET i == mapIndex(map, plugin.metadata.name)
  IN IF i = 0 THEN Append(map, plugin) ELSE map

mapSetAppend(map, plugin) == Append(map, plugin)

mapSet(map, plugin) ==
  LET i == mapIndex(map, plugin.metadata.name)
  IN IF i = 0 THEN Append(map, plugin) ELSE [map EXCEPT ![i] = plugin]

\* PluginLoader.getPlugin / Marketplace.getPlugin: [has, plugin]
getPlugin(map, name) ==
  LET i == mapIndex(map, name)
  IN IF i = 0 THEN [has |-> FALSE, plugin |-> NoPlugin]
     ELSE [has |-> TRUE, plugin |-> map[i]]

\* PluginLoader.getAllPlugins / Marketplace.listPlugins
getAllPlugins(map) == map

\* `${plugin.metadata.name}:${command.name}`
commandKey(pluginName, commandName) == pluginName \o <<":">> \o commandName

RECURSIVE commandPairsEnabledOnly(_, _)
commandPairsEnabledOnly(map, i) ==
  IF i > Len(map) THEN <<>>
  ELSE (IF map[i].enabled
        THEN [c \in 1..Len(map[i].metadata.commands) |->
                [key |-> commandKey(map[i].metadata.name,
                                    map[i].metadata.commands[c].name),
                 plugin |-> i, command |-> c]]
        ELSE <<>>)
       \o commandPairsEnabledOnly(map, i + 1)

\* The (plugin, command) positions in the iteration order of getAllCommands
RECURSIVE commandPairs(_, _)
commandPairs(map, i) ==
  IF i > Len(map) THEN <<>>
  ELSE [c \in 1..Len(map[i].metadata.commands) |->
          [key |-> commandKey(map[i].metadata.name,
                              map[i].metadata.commands[c].name),
           plugin |-> i, command |-> c]]
       \o commandPairs(map, i + 1)

\* commands.set(commandKey, {plugin, command}) over a sequence of pairs
RECURSIVE commandsSet(_, _)
commandsSet(acc, pairs) ==
  IF pairs = <<>> THEN acc
  ELSE LET e == Head(pairs)
           idx == {i \in 1..Len(acc) : acc[i].key = e.key}
       IN commandsSet(IF idx = {} THEN Append(acc, e)
                      ELSE [acc EXCEPT ![Min(idx)] = e],
                      Tail(pairs))

\* PluginLoader.getAllCommands / Marketplace.getSlashCommands: the Map as a
\* sequence of [key, plugin, command], plugin and command being positions
getAllCommands(map) == commandsSet(<<>>, commandPairs(map, 1))

getSlashCommands(map) == getAllCommands(map)

loaderSetPluginEnabledAlways(map, id, enabled) ==
  LET i == mapIndex(map, id)
  IN [result |-> TRUE,
      plugins |-> IF i # 0 THEN [map EXCEPT ![i].enabled = enabled] ELSE map]

loaderSetPluginEnabledAll(map, id, enabled) ==
  LET i == mapIndex(map, id)
  IN IF i # 0
     THEN [result |-> TRUE,
           plugins |-> [k \in 1..Len(map) |-> [map[k] EXCEPT !.enabled = enabled]]]
     ELSE [result |-> FALSE, plugins |-> map]

loaderSetPluginEnabledDisableOnly(map, id, enabled) ==
  LET i == mapIndex(map, id)
  IN IF i # 0
     THEN [result |-> TRUE,
           plugins |-> IF enabled THEN map
                       ELSE [map EXCEPT ![i].enabled = enabled]]
     ELSE [result |-> FALSE, plugins |-> map]

\* PluginLoader.setPluginEnabled: [result, plugins]
loaderSetPluginEnabled(map, id, enabled) ==
  LET i == mapIndex(map, id)
  IN IF i # 0
     THEN [result |-> TRUE, plugins |-> [map EXCEPT ![i].enabled = enabled]]
     ELSE [result |-> FALSE, plugins |-> map]

\* ------------------------------------------------------------------------
\* Marketplace.executeCommand
\* ------------------------------------------------------------------------
\* The substitution of a replacement string by String.prototype.replace:
\* "$$" inserts "$" and "$&" inserts the matched text; the pattern has no
\* capture group, and the texts of the model have no "`" and no "'".
RECURSIVE expandReplacement(_, _)
expandReplacement(value, matched) ==
  IF value = <<>> THEN <<>>
  ELSE IF Len(value) >= 2 /\ value[1] = "$" /\ value[2] = "$"
  THEN <<"$">> \o expandReplacement(Sub(value, 3, Len(value)), matched)
  ELSE IF Len(value) >= 2 /\ value[1] = "$" /\ value[2] = "&"
  THEN matched \o expandReplacement(Sub(value, 3, Len(value)), matched)
  ELSE <<Head(value)>> \o expandReplacement(Tail(value), matched)

\* prompt.replace(new RegExp(pattern, 'g'), value) for a pattern that is a
\* literal text: every non-overlapping occurrence, left to right
RECURSIVE replaceAll(_, _, _)
replaceAll(text, pattern, value) ==
  LET i == IndexOf(text, pattern, 1)
  IN IF i = 0 \/ pattern = <<>> THEN text
     ELSE Sub(text, 1, i - 1) \o expandReplacement(value, pattern)
          \o replaceAll(Sub(text, i + Len(pattern), Len(text)), pattern, value)

\* the text matched by `\\{\\{${param.name}\\}\\}` for a name without
\* regular-expression metacharacters
placeholder(name) == <<"{", "{">> \o name \o <<"}", "}">>

\* args is [given, list]: given = FALSE is an omitted argument list
NoArgs == [given |-> FALSE, list |-> <<>>]
Args(list) == [given |-> TRUE, list |-> list]

\* args[index] ?? param.default ?? ''
paramValue(param, args, index) ==
  IF index <= Len(args.list) THEN args.list[index]
  ELSE IF param.hasDefault THEN param.default
  ELSE <<>>

RECURSIVE substituteReversed(_, _, _, _)
substituteReversed(prompt, parameters, args, index) ==
  IF index > Len(parameters) THEN prompt
  ELSE replaceAll(substituteReversed(prompt, parameters, args, index + 1),
                  placeholder(parameters[index].name),
                  paramValue(parameters[index], args, index))

\* parameters.forEach(...) from the parameter at position index on
RECURSIVE substitute(_, _, _, _)
substitute(prompt, parameters, args, index) ==
  IF index > Len(parameters) THEN prompt
  ELSE substitute(
         replaceAll(prompt, placeholder(parameters[index].name),
                    paramValue(parameters[index], args, index)),
         parameters, args, index + 1)

executeCommandUnguarded(map, commandName, args) ==
  LET commands == getSlashCommands(map)
      idx == {i \in 1..Len(commands) : commands[i].key = commandName}
  IN IF idx = {}
     THEN [outcome |-> "throw", err |-> "Command not found", text |-> <<>>,
           plugins |-> map]
     ELSE LET commandEntry == commands[Min(idx)]
              plugin == map[commandEntry.plugin]
              command == plugin.metadata.commands[commandEntry.command]
          IN [outcome |-> "ok", err |-> "",
              text |-> IF args.given /\ command.parameters.defined
                       THEN substitute(command.prompt,
                                       command.parameters.list, args, 1)
                       ELSE command.prompt,
              plugins |-> map]

executeCommandStoring(map, commandName, args) ==
  LET commands == getSlashCommands(map)
      idx == {i \in 1..Len(commands) : commands[i].key = commandName}
  IN IF idx = {}
     THEN [outcome |-> "throw", err |-> "Command not found", text |-> <<>>,
           plugins |-> map]
     ELSE LET commandEntry == commands[Min(idx)]
              plugin == map[commandEntry.plugin]
              command == plugin.metadata.commands[commandEntry.command]
              text == IF args.given /\ command.parameters.defined
                      THEN substitute(command.prompt,
                                      command.parameters.list, args, 1)
                      ELSE command.prompt
          IN IF ~plugin.enabled
             THEN [outcome |-> "throw", err |-> "Plugin is disabled",
                   text |-> <<>>, plugins |-> map]
             ELSE [outcome |-> "ok", err |-> "", text |-> text,
                   plugins |->
                     [map EXCEPT ![commandEntry.plugin].metadata
                                    .commands[commandEntry.command].prompt
                                  = text]]

\* Marketplace.executeCommand: [outcome, err, text, plugins]; plugins is the
\* registry after the call: the prompt is copied into a local variable and
\* the substitution assigns to that variable only
executeCommand(map, commandName, args) ==
  LET commands == getSlashCommands(map)
      idx == {i \in 1..Len(commands) : commands[i].key = commandName}
  IN IF idx = {}
     THEN [outcome |-> "throw", err |-> "Command not found", text |-> <<>>,
           plugins |-> map]
     ELSE LET commandEntry == commands[Min(idx)]
              plugin == map[commandEntry.plugin]
              command == plugin.metadata.commands[commandEntry.command]
          IN IF ~plugin.enabled
             THEN [outcome |-> "throw", err |-> "Plugin is disabled",
                   text |-> <<>>, plugins |-> map]
             ELSE [outcome |-> "ok", err |-> "",
                   text |-> IF args.given /\ command.parameters.defined
                            THEN substitute(command.prompt,
                                            command.parameters.list, args, 1)
                            ELSE command.prompt,
                   plugins |-> map]

\* ------------------------------------------------------------------------
\* Marketplace: persisted registry and statistics
\* ------------------------------------------------------------------------
ConfigVersion == "1.0.0"

\* PluginRegistry (marketplace.ts:18-26); lastUpdated, a wall-clock time
\* stamp, is not modelled
PluginRegistry(summaries) == [version |-> ConfigVersion, plugins |-> summaries]

Summary(id, enabled, installedVersion) ==
  [id |-> id, enabled |-> enabled, installedVersion |-> installedVersion]

\* registry.json: absent, not parseable, or a parsed PluginRegistry
FileAbsent == [kind |-> "absent", json |-> PluginRegistry(<<>>)]
FileGarbage == [kind |-> "garbage", json |-> PluginRegistry(<<>>)]
FileJson(reg) == [kind |-> "json", json |-> reg]

updateRegistryEnabledOnly(map) ==
  LET all == SelectSeq(getAllPlugins(map), LAMBDA p : p.enabled)
  IN PluginRegistry([i \in 1..Len(all) |->
                       Summary(all[i].metadata.name, all[i].enabled,
                               all[i].metadata.version)])

\* The value updateRegistry assigns to this.registry and serialises
updateRegistry(map) ==
  LET all == getAllPlugins(map)
  IN PluginRegistry([i \in 1..Len(all) |->
                       Summary(all[i].metadata.name, all[i].enabled,
                               all[i].metadata.version)])

\* What writeFileSync can do: replace the file; fail to open it, which
\* leaves it as it was; or fail after opening it, which leaves it emptied or
\* cut short, no longer JSON
WriteOutcomes == {"written", "EACCES", "ENOSPC"}

\* The outcomes in which the file is replaced whole or not touched
OpenOutcomes == {"written", "EACCES"}

updateRegistryWriteFirst(map, f, how) ==
  [threw |-> how # "written",
   registry |-> updateRegistry(map),
   file |-> FileJson(updateRegistry(map))]

updateRegistryWriteSwallow(map, f, how) ==
  [threw |-> FALSE,
   registry |-> updateRegistry(map),
   file |-> CASE how = "written" -> FileJson(updateRegistry(map))
              [] how = "EACCES" -> f
              [] OTHER -> FileGarbage]

\* Marketplace.updateRegistry as a whole: this.registry is assigned, then
\* writeFileSync replaces registry.json or throws; nothing catches the
\* error: [threw, registry, file]
updateRegistryWrite(map, f, how) ==
  [threw |-> how # "written",
   registry |-> updateRegistry(map),
   file |-> CASE how = "written" -> FileJson(updateRegistry(map))
              [] how = "EACCES" -> f
              [] OTHER -> FileGarbage]

getStatsNoFilter(map) ==
  LET all == getAllPlugins(map)
      commands == getSlashCommands(map)
  IN [totalPlugins |-> Len(all),
      enabledPlugins |-> Len(all),
      totalCommands |-> Len(commands),
      version |-> ConfigVersion]

\* Marketplace.getStats
getStats(map) ==
  LET all == getAllPlugins(map)
      commands == getSlashCommands(map)
  IN [totalPlugins |-> Len(all),
      enabledPlugins |-> Len(SelectSeq(all, LAMBDA p : p.enabled)),
      totalCommands |-> Len(commands),
      version |-> ConfigVersion]

\* ------------------------------------------------------------------------
\* State
\* ------------------------------------------------------------------------
VARIABLES
  fs,         \* the plugins root: [root, entries], entries in readdir order
  fsChanges,  \* number of changes made to the tree by the environment
  file,       \* registry.json
  pc,         \* "new" before the constructor, then "ready" or "crashed"
  registry,   \* Marketplace.registry
  plugins,    \* PluginLoader.plugins
  ini,        \* the initialize() in flight, or the last one that ran
  hist,       \* history: the initializations completed over the tree as
              \* it is (runs: none, one, two or more with none in flight
              \* since) and the registry's metadata after the first
  last,       \* the last call made to the Marketplace and its outcome
  probe       \* a direct call of one of the loader's private functions:
              \* [fn, st, input, output, origin]

vars == <<fs, fsChanges, file, pc, registry, plugins, ini, hist, last, probe>>

NoEntries == [d \in 1..MaxDirs |-> E_None]

FsStates ==
  {[root |-> "dir", entries |-> e] : e \in [1..MaxDirs -> DirEntries]}
  \cup {[root |-> r, entries |-> NoEntries] : r \in {"absent", "file"}}

NameZ == <<"z">>

FileChoices ==
  {FileAbsent, FileGarbage,
   FileJson(PluginRegistry(<<Summary(NameA, FALSE, V1),
                             Summary(NameZ, TRUE, V1)>>))}

NoStats ==
  [totalPlugins |-> 0, enabledPlugins |-> 0, totalCommands |-> 0,
   version |-> ConfigVersion]

\* result is what listPlugins, getSlashCommands and getPlugin return
Call(op, id, flag, args, outcome, err, text, stats) ==
  [op |-> op, id |-> id, flag |-> flag, args |-> args, outcome |-> outcome,
   err |-> err, text |-> text, stats |-> stats, result |-> <<>>]

NoCall == Call("none", <<>>, FALSE, NoArgs, "", "", <<>>, NoStats)

NoProbe ==
  [fn |-> "none", st |-> "done", input |-> <<>>, output |-> <<>>,
   origin |-> [built |-> FALSE, header |-> <<>>, body |-> <<>>]]

IdleScan ==
  [phase |-> "idle", dirs |-> <<>>, next |-> 1, loaded |-> <<>>, seen |-> <<>>]

\* The trees of plugins that load: the registry the reads are made on
LoadableEntries == {E_A1, E_A2, E_B1}

LoadableTrees ==
  {[root |-> "dir", entries |-> e] : e \in [1..MaxDirs -> LoadableEntries]}

InitOn(trees, files) ==
  /\ fs \in trees
  /\ fsChanges = 0
  /\ file \in files
  /\ pc = "new"
  /\ registry = PluginRegistry(<<>>)
  /\ plugins = <<>>
  /\ ini = IdleScan
  /\ hist = [runs |-> 0, meta |-> <<>>, dirty |-> FALSE]
  /\ last = NoCall
  /\ probe = NoProbe

Init == InitOn(LoadableTrees, FileChoices)

InitScan == InitOn(FsStates, FileChoices)

\* The trees of two plugins of different names, with no registry.json yet
InitEnv ==
  InitOn({[root |-> "dir", entries |-> e] : e \in [1..MaxDirs -> {E_A1, E_B1}]},
         {FileAbsent})

\* ------------------------------------------------------------------------
\* Marketplace: constructor and loadRegistry
\* ------------------------------------------------------------------------
\* Marketplace.loadRegistry: [threw, registry]
loadRegistry(f) ==
  IF f.kind = "absent" THEN [threw |-> FALSE, registry |-> PluginRegistry(<<>>)]
  ELSE IF f.kind = "garbage"
  THEN [threw |-> TRUE, registry |-> PluginRegistry(<<>>)]
  ELSE [threw |-> FALSE, registry |-> f.json]

\* new Marketplace(marketplaceRoot)
Construct ==
  /\ pc = "new"
  /\ LET r == loadRegistry(file)
     IN /\ pc' = IF r.threw THEN "crashed" ELSE "ready"
        /\ registry' = r.registry
        /\ last' = Call("new", <<>>, FALSE, NoArgs,
                        IF r.threw THEN "throw" ELSE "ok",
                        IF r.threw THEN "SyntaxError" ELSE "", <<>>, NoStats)
  /\ UNCHANGED <<probe, fs, fsChanges, file, plugins, ini, hist>>

\* ------------------------------------------------------------------------
\* Marketplace.initialize, one step per await
\* ------------------------------------------------------------------------
getPluginDirectoriesNoFilter(tree) ==
  IF tree.root = "absent" THEN [threw |-> FALSE, dirs |-> <<>>]
  ELSE IF tree.root = "file" THEN [threw |-> TRUE, dirs |-> <<>>]
  ELSE [threw |-> FALSE,
        dirs |-> SelectSeq([d \in 1..MaxDirs |-> d],
                           LAMBDA d : tree.entries[d].kind # "none")]

getPluginDirectoriesReversed(tree) ==
  IF tree.root = "absent" THEN [threw |-> FALSE, dirs |-> <<>>]
  ELSE IF tree.root = "file" THEN [threw |-> TRUE, dirs |-> <<>>]
  ELSE [threw |-> FALSE,
        dirs |-> SelectSeq([d \in 1..MaxDirs |-> MaxDirs + 1 - d],
                           LAMBDA d : tree.entries[d].kind = "dir")]

\* PluginLoader.getPluginDirectories: [threw, dirs]
getPluginDirectories(tree) ==
  IF tree.root = "absent" THEN [threw |-> FALSE, dirs |-> <<>>]
  ELSE IF tree.root = "file" THEN [threw |-> TRUE, dirs |-> <<>>]
  ELSE [threw |-> FALSE,
        dirs |-> SelectSeq([d \in 1..MaxDirs |-> d],
                           LAMBDA d : tree.entries[d].kind = "dir")]

\* initialize() up to the first await of loadAllPlugins
InitializeStart ==
  /\ pc = "ready"
  /\ ini.phase = "idle"
  /\ LET r == getPluginDirectories(fs)
     IN IF r.threw
        THEN /\ last' = Call("initialize", <<>>, FALSE, NoArgs, "throw",
                             "ENOTDIR", <<>>, NoStats)
             /\ UNCHANGED <<ini, hist>>
        ELSE /\ ini' = [phase |-> "loading", dirs |-> r.dirs, next |-> 1,
                        loaded |-> <<>>, seen |-> <<>>]
             /\ hist' = [hist EXCEPT !.dirty = FALSE,
                                     !.runs = IF @ = 2 THEN 1 ELSE @]
             /\ last' = Call("initialize", <<>>, FALSE, NoArgs, "pending", "",
                             <<>>, NoStats)
  /\ UNCHANGED <<probe, fs, fsChanges, file, pc, registry, plugins>>

loadAllPluginsStepNoCatch(map, loaded, path, entry) ==
  LET r == loadPlugin(path, entry)
  IN [raised |-> r.kind = "throw",
      plugins |-> IF r.kind = "ok" THEN mapSet(map, r.plugin) ELSE map,
      loaded |-> IF r.kind = "ok" THEN Append(loaded, r.plugin) ELSE loaded]

loadAllPluginsStepKeepFlag(map, loaded, path, entry) ==
  LET r == loadPlugin(path, entry)
      old == getPlugin(map, r.plugin.metadata.name)
      kept == IF old.has THEN [r.plugin EXCEPT !.enabled = old.plugin.enabled]
              ELSE r.plugin
  IN [raised |-> FALSE,
      plugins |-> IF r.kind = "ok" THEN mapSet(map, kept) ELSE map,
      loaded |-> IF r.kind = "ok" THEN Append(loaded, r.plugin) ELSE loaded]

loadAllPluginsStepEvict(map, loaded, path, entry) ==
  LET r == loadPlugin(path, entry)
  IN [raised |-> FALSE,
      plugins |-> IF r.kind = "ok" THEN mapSet(map, r.plugin)
                  ELSE SelectSeq(map, LAMBDA p : p.path # path),
      loaded |-> IF r.kind = "ok" THEN Append(loaded, r.plugin) ELSE loaded]

\* One iteration of the loop of loadAllPlugins, its try/catch included:
\* [raised, plugins, loaded]
loadAllPluginsStep(map, loaded, path, entry) ==
  LET r == loadPlugin(path, entry)
  IN [raised |-> FALSE,
      plugins |-> IF r.kind = "ok" THEN mapSet(map, r.plugin) ELSE map,
      loaded |-> IF r.kind = "ok" THEN Append(loaded, r.plugin) ELSE loaded]

LoadStep ==
  /\ pc = "ready"
  /\ ini.phase = "loading"
  /\ ini.next <= Len(ini.dirs)
  /\ LET path == ini.dirs[ini.next]
         entry == fs.entries[path]
         r == loadAllPluginsStep(plugins, ini.loaded, path, entry)
     IN /\ plugins' = r.plugins
        /\ IF r.raised
           THEN /\ ini' = [ini EXCEPT !.phase = "idle",
                                      !.seen = Append(@, entry)]
                /\ last' = Call("initialize", <<>>, FALSE, NoArgs, "throw",
                                "load", <<>>, NoStats)
           ELSE /\ ini' = [ini EXCEPT !.next = @ + 1, !.loaded = r.loaded,
                                      !.seen = Append(@, entry)]
                /\ last' = Call("initialize", <<>>, FALSE, NoArgs, "pending",
                                "", <<>>, NoStats)
  /\ UNCHANGED <<probe, fs, fsChanges, file, pc, registry, hist>>

\* The metadata of the registry, in order, without the enabled flags
MetadataOf(map) == [i \in 1..Len(map) |-> map[i].metadata]

\* The rest of initialize(): updateRegistry(); writeFileSync succeeds or
\* throws
InitializeFinishOn(outcomes) ==
  /\ pc = "ready"
  /\ ini.phase = "loading"
  /\ ini.next > Len(ini.dirs)
  /\ \E how \in outcomes :
       LET w == updateRegistryWrite(plugins, file, how)
       IN /\ registry' = w.registry
          /\ file' = w.file
          /\ last' = Call("initialize", <<>>, FALSE, NoArgs,
                          IF w.threw THEN "throw" ELSE "ok",
                          IF w.threw THEN how ELSE "", <<>>, NoStats)
  /\ ini' = [ini EXCEPT !.phase = "idle"]
  /\ hist' = IF hist.dirty THEN hist
             ELSE IF hist.runs = 0
             THEN [hist EXCEPT !.runs = 1, !.meta = MetadataOf(plugins)]
             ELSE [hist EXCEPT !.runs = 2]
  /\ UNCHANGED <<probe, fs, fsChanges, pc, plugins>>

InitializeFinish == InitializeFinishOn(OpenOutcomes)

\* ------------------------------------------------------------------------
\* Marketplace.setPluginEnabled, executeCommand, getStats
\* ------------------------------------------------------------------------
PluginIds == {NameA, NameB}

SetPluginEnabledOn(id, enabled, outcomes) ==
  /\ pc = "ready"
  /\ LET r == loaderSetPluginEnabled(plugins, id, enabled)
     IN IF r.result
        THEN \E how \in outcomes :
               LET w == updateRegistryWrite(r.plugins, file, how)
               IN /\ plugins' = r.plugins
                  /\ registry' = w.registry
                  /\ file' = w.file
                  /\ last' = Call("setPluginEnabled", id, enabled, NoArgs,
                                  IF w.threw THEN "throw" ELSE "true",
                                  IF w.threw THEN how ELSE "", <<>>,
                                  NoStats)
        ELSE /\ last' = Call("setPluginEnabled", id, enabled, NoArgs, "false",
                             "", <<>>, NoStats)
             /\ UNCHANGED <<plugins, registry, file>>
  /\ UNCHANGED <<probe, fs, fsChanges, pc, ini, hist>>

SetPluginEnabled(id, enabled) == SetPluginEnabledOn(id, enabled, OpenOutcomes)

KeyAH == commandKey(NameA, <<"h">>)
KeyAG == commandKey(NameA, <<"g">>)
KeyAK == commandKey(NameA, <<"k">>)

\* The calls of executeCommand the model makes: <<key, args>>
ExecCalls ==
  {<<KeyAH, NoArgs>>, <<KeyAH, Args(<<>>)>>, <<KeyAH, Args(<< <<"v">> >>)>>,
   <<KeyAG, Args(<< <<"$", "&">>, <<"w">> >>)>>, <<KeyAK, Args(<<>>)>>,
   <<NameZ, Args(<<>>)>>}

ExecuteCommand(key, args) ==
  /\ pc = "ready"
  /\ LET r == executeCommand(plugins, key, args)
     IN /\ last' = Call("executeCommand", key, FALSE, args, r.outcome, r.err,
                        r.text, NoStats)
        /\ plugins' = r.plugins
  /\ UNCHANGED <<probe, fs, fsChanges, file, pc, registry, ini, hist>>

GetStats ==
  /\ pc = "ready"
  /\ last' = Call("getStats", <<>>, FALSE, NoArgs, "ok", "", <<>>,
                  getStats(plugins))
  /\ UNCHANGED <<probe, fs, fsChanges, file, pc, registry, plugins, ini, hist>>

\* ------------------------------------------------------------------------
\* Environment: the plugins tree changes between two steps of the program
\* ------------------------------------------------------------------------
\* one plugin directory is deleted, or its metadata becomes invalid
ChangedEntries == {E_None, E_Invalid}

FsMutate ==
  /\ pc = "ready"
  /\ fsChanges < MaxFsChanges
  /\ \E d \in 1..MaxDirs, e \in ChangedEntries :
       /\ e # fs.entries[d]
       /\ fs' = [fs EXCEPT !.entries[d] = e]
  /\ fsChanges' = fsChanges + 1
  /\ hist' = [runs |-> 0, meta |-> <<>>, dirty |-> TRUE]
  /\ UNCHANGED <<probe, file, pc, registry, plugins, ini, last>>

\* The whole interface, on the trees of plugins that load
Next ==
  \/ Construct
  \/ InitializeStart
  \/ LoadStep
  \/ InitializeFinish
  \/ \E id \in PluginIds, enabled \in BOOLEAN : SetPluginEnabled(id, enabled)
  \/ \E c \in ExecCalls : ExecuteCommand(c[1], c[2])
  \/ GetStats

Spec == Init /\ [][Next]_vars

\* Scanning and enabling, on every tree
NextScan ==
  \/ Construct
  \/ InitializeStart
  \/ LoadStep
  \/ InitializeFinish
  \/ \E id \in PluginIds, enabled \in BOOLEAN : SetPluginEnabled(id, enabled)

SpecScan == InitScan /\ [][NextScan]_vars

\* Scanning and enabling while the tree changes
NextEnv ==
  \/ Construct
  \/ InitializeStart
  \/ LoadStep
  \/ InitializeFinish
  \/ \E id \in PluginIds, enabled \in BOOLEAN : SetPluginEnabled(id, enabled)
  \/ FsMutate

SpecEnv == InitEnv /\ [][NextEnv]_vars

\* The same, from the one tree of plugin a followed by plugins b
StaleTree ==
  [root |-> "dir",
   entries |-> [d \in 1..MaxDirs |-> IF d = 1 THEN E_A1 ELSE E_B1]]

InitStale == InitOn({StaleTree}, {FileAbsent})

SpecStale == InitStale /\ [][NextEnv]_vars

\* Scanning and enabling on the trees of candidates that load, are skipped
\* or are missing, with no registry.json yet
RaceEntries == {E_None, E_Invalid, E_A1, E_A2, E_B1}

InitRace ==
  InitOn({[root |-> "dir", entries |-> e] :
            e \in [1..MaxDirs -> RaceEntries]},
         {FileAbsent})

SpecRace == InitRace /\ [][NextScan]_vars

\* Start-up: the constructor and initialize(), with no other call, on every
\* tree and every registry.json
NextStart ==
  \/ Construct
  \/ InitializeStart
  \/ LoadStep
  \/ InitializeFinish

SpecStart == InitScan /\ [][NextStart]_vars

\* ------------------------------------------------------------------------
\* The reads of the Marketplace, on plugins whose names and command files
\* hold a colon or ".md" twice
\* ------------------------------------------------------------------------
\* Marketplace.listPlugins
ListPlugins ==
  /\ pc = "ready"
  /\ last' = [Call("listPlugins", <<>>, FALSE, NoArgs, "ok", "", <<>>, NoStats)
                EXCEPT !.result = getAllPlugins(plugins)]
  /\ UNCHANGED <<probe, fs, fsChanges, file, pc, registry, plugins, ini, hist>>

\* Marketplace.getSlashCommands
GetSlashCommands ==
  /\ pc = "ready"
  /\ last' = [Call("getSlashCommands", <<>>, FALSE, NoArgs, "ok", "", <<>>,
                   NoStats)
                EXCEPT !.result = getSlashCommands(plugins)]
  /\ UNCHANGED <<probe, fs, fsChanges, file, pc, registry, plugins, ini, hist>>

\* Marketplace.getPlugin
GetPlugin(id) ==
  /\ pc = "ready"
  /\ last' = [Call("getPlugin", id, FALSE, NoArgs, "ok", "", <<>>, NoStats)
                EXCEPT !.result = getPlugin(plugins, id)]
  /\ UNCHANGED <<probe, fs, fsChanges, file, pc, registry, plugins, ini, hist>>

NameAH == <<"a", ":", "h">>

\* commands/h:h.md
FileHH == CommandFile(<<"h", ":", "h">> \o MdExt, TRUE, ContentPlain)
\* commands/.mdh.md and commands/h.md.md
FileMdH == CommandFile(MdExt \o <<"h">> \o MdExt, TRUE, ContentPlain)
FileHMd == CommandFile(<<"h">> \o MdExt \o MdExt, TRUE, ContentHi)

\* The "id" of a plugin.json that declares one next to its name
IdM == <<"m">>

\* plugin "a" with the command "h:h"; plugin.json with the id "m" and the
\* name "a:h", with the command "h"
E_ColonCommand ==
  Entry("dir", MetaFile("json", NameA, V1, DescText, <<>>),
        CmdsDir(<<FileHH>>))
E_ColonName ==
  Entry("dir", [MetaFile("json", NameAH, V1, DescText, <<>>) EXCEPT !.id = IdM],
        CmdsDir(<<FileH>>))
\* plugin "b" whose two files both give the command name "h.md"
E_Twin ==
  Entry("dir", MetaFile("json", NameB, V1, DescText, <<>>),
        CmdsDir(<<FileMdH, FileHMd>>))

ReadEntries == {E_ColonCommand, E_ColonName, E_Twin}

InitRead ==
  InitOn({[root |-> "dir", entries |-> e] :
            e \in [1..MaxDirs -> ReadEntries]},
         {FileAbsent})

KeyAHH == commandKey(NameA, <<"h", ":", "h">>)

ReadExecCalls == {<<KeyAHH, Args(<< <<"v">> >>)>>}

ReadIds == {NameA, NameAH}

NextRead ==
  \/ Construct
  \/ InitializeStart
  \/ LoadStep
  \/ InitializeFinish
  \/ \E id \in PluginIds, enabled \in BOOLEAN : SetPluginEnabled(id, enabled)
  \/ \E c \in ReadExecCalls : ExecuteCommand(c[1], c[2])
  \/ GetStats
  \/ ListPlugins
  \/ GetSlashCommands
  \/ \E id \in ReadIds : GetPlugin(id)

SpecRead == InitRead /\ [][NextRead]_vars

\* ------------------------------------------------------------------------
\* The calls on two plugins that both have commands, with every outcome of
\* the registry write
\* ------------------------------------------------------------------------
\* plugin "b" with commands/p.md
E_B2 ==
  Entry("dir", MetaFile("json", NameB, V1, DescText, <<>>), CmdsDir(<<FileP>>))

CallEntries == {E_A2, E_B2}

InitCalls ==
  InitOn({[root |-> "dir", entries |-> e] :
            e \in [1..MaxDirs -> CallEntries]},
         {FileAbsent})

KeyBP == commandKey(NameB, <<"p">>)

\* "{{x}}" and "{{y}}", the placeholders of the two parameters of a:g
HoleX == placeholder(<<"x">>)
HoleY == placeholder(<<"y">>)

\* a:g with a first value that holds the placeholder of the second
\* parameter, and with a second value that holds the placeholder of the first
CallExecs ==
  {<<KeyAG, Args(<<HoleY, <<"w">> >>)>>, <<KeyAG, Args(<< <<"v">>, HoleX>>)>>,
   <<KeyBP, Args(<<>>)>>}

NextCalls ==
  \/ Construct
  \/ InitializeStart
  \/ LoadStep
  \/ InitializeFinishOn(WriteOutcomes)
  \/ \E id \in PluginIds, enabled \in BOOLEAN :
       SetPluginEnabledOn(id, enabled, WriteOutcomes)
  \/ \E c \in CallExecs : ExecuteCommand(c[1], c[2])
  \/ \E id \in PluginIds : GetPlugin(id)
  \/ GetStats

SpecCalls == InitCalls /\ [][NextCalls]_vars

\* ------------------------------------------------------------------------
\* The loader's functions called one at a time, on inputs drawn at the start
\* ------------------------------------------------------------------------
MaxLines == 5
MaxEntries == 2
MaxHintLen == 6

\* lines.join('\n')
RECURSIVE Join(_, _)
Join(lines, sep) ==
  IF lines = <<>> THEN <<>>
  ELSE IF Len(lines) = 1 THEN lines[1]
  ELSE lines[1] \o <<sep>> \o Join(Tail(lines), sep)

\* The lines command files are made of: the delimiter, "k: v", ":v", "k",
\* the empty line, " k :w" and "__proto__: v"
FileLines ==
  {Delim, <<"k", ":", " ", "v">>, <<":", "v">>, <<"k">>, <<>>,
   <<" ", "k", " ", ":", "w">>, ProtoKey \o <<":", " ", "v">>}

\* Header maps, as the entries in the order they are written down
HeaderKeys == {<<"k">>, <<"j">>, <<"k", " ">>, ProtoKey}
HeaderValues == {<<"v">>, <<>>, <<" ", "v">>, <<"a", ":", "b">>}

\* no key twice
IsHeader(h) == \A i, j \in 1..Len(h) : h[i].key = h[j].key => i = j

Bodies ==
  {<<>>, ContentPlain, Delim \o <<NL>>, CloseDelim \o <<"k", ":", " ", "v">>}

\* A command file written from a header map and a body: the opening
\* delimiter line, one "key: value" line per entry, the closing delimiter
\* line, the body
headerLines(h) ==
  [i \in 1..Len(h) |-> h[i].key \o <<":", " ">> \o h[i].value]

commandFileText(h, body) ==
  Join(<<Delim>> \o headerLines(h) \o <<Delim, body>>, NL)

NoOrigin == [built |-> FALSE, header |-> <<>>, body |-> <<>>]

\* argument hints: undefined, or a string over "[", "]", "f", "d"
HintChars == {"[", "]", "f", "d"}

\* parsed plugin.json records
MetadataRecords ==
  {MetaFileWith(n, v, d, c) :
     n \in {<<>>, NameA}, v \in {<<>>, V1}, d \in {<<>>, DescText},
     c \in {"absent", "list", "other"}}

\* a plugin whose plugin.json has "commands": "all"
E_NonList ==
  Entry("dir", MetaFileWith(NameB, V1, DescText, "other"), CmdsDir(<<FileP>>))

Asked(fn, input, origin) ==
  [fn |-> fn, st |-> "asked", input |-> input, output |-> <<>>,
   origin |-> origin]

\* The calls made: parseFrontmatter on a text of up to MaxLines lines and on
\* the file written from a header of up to MaxEntries entries and a body,
\* parseArgumentHint on undefined and on a hint of up to MaxHintLen
\* characters, validateMetadata on a record, loadPlugin on a candidate
IsProbeCall(p) ==
  \/ \E n \in 1..MaxLines : \E ls \in [1..n -> FileLines] :
       p = Asked("parseFrontmatter", Join(ls, NL), NoOrigin)
  \/ \E n \in 0..MaxEntries :
       \E h \in [1..n -> [key : HeaderKeys, value : HeaderValues]] :
         \E b \in Bodies :
           /\ IsHeader(h)
           /\ p = Asked("parseFrontmatter", commandFileText(h, b),
                        [built |-> TRUE, header |-> h, body |-> b])
  \/ p = Asked("parseArgumentHint", [has |-> FALSE, value |-> <<>>], NoOrigin)
  \/ \E n \in 0..MaxHintLen : \E h \in [1..n -> HintChars] :
       p = Asked("parseArgumentHint", [has |-> TRUE, value |-> h], NoOrigin)
  \/ \E m \in MetadataRecords : p = Asked("validateMetadata", m, NoOrigin)
  \/ \E e \in DirEntries \cup {E_NonList} :
       p = Asked("loadPlugin", e, NoOrigin)

InitUnit ==
  /\ fs = [root |-> "absent", entries |-> NoEntries]
  /\ fsChanges = 0
  /\ file = FileAbsent
  /\ pc = "unit"
  /\ registry = PluginRegistry(<<>>)
  /\ plugins = <<>>
  /\ ini = IdleScan
  /\ hist = [runs |-> 0, meta |-> <<>>, dirty |-> FALSE]
  /\ last = NoCall
  /\ IsProbeCall(probe)

Answer(fn, output) ==
  /\ pc = "unit"
  /\ probe.fn = fn
  /\ probe.st = "asked"
  /\ probe' = [probe EXCEPT !.st = "done", !.output = output]
  /\ UNCHANGED <<fs, fsChanges, file, pc, registry, plugins, ini, hist, last>>

ParseFrontmatter == Answer("parseFrontmatter", parseFrontmatter(probe.input))

ParseArgumentHint == Answer("parseArgumentHint", parseArgumentHint(probe.input))

ValidateMetadata == Answer("validateMetadata", validateMetadata(probe.input))

LoadPlugin == Answer("loadPlugin", loadPlugin(1, probe.input))

NextUnit ==
  \/ ParseFrontmatter
  \/ ParseArgumentHint
  \/ ValidateMetadata
  \/ LoadPlugin

SpecUnit == InitUnit /\ [][NextUnit]_vars

\* ------------------------------------------------------------------------
\* Properties
\* ------------------------------------------------------------------------
\* A candidate that cannot be loaded, in the words of the specification
Faulty(entry) ==
  \/ entry.meta.st = "missing"
  \/ entry.meta.st = "garbage"
  \/ entry.meta.name = <<>>
  \/ entry.meta.version = <<>>
  \/ entry.meta.description = <<>>
  \/ /\ entry.cmds.kind = "dir"
     /\ \E k \in 1..Len(entry.cmds.files) :
          /\ EndsWith(entry.cmds.files[k].name, MdExt)
          /\ ~entry.cmds.files[k].readable

LoadedFrom(loaded, path) == {k \in 1..Len(loaded) : loaded[k].path = path}

Names(map) == {map[i].metadata.name : i \in 1..Len(map)}

\* C1: per-plugin fault isolation. In a scan no candidate makes
\* loadAllPlugins raise; of the candidates read so far, a faulty one (no
\* metadata file, unparseable or invalid metadata, unreadable command file)
\* is not in the result, and every other one is in the result, once, under
\* its own name, and its name is registered.
C1_FaultIsolation ==
  /\ ~(last.op = "initialize" /\ last.outcome = "throw" /\ last.err = "load")
  /\ ini.phase = "loading" => Len(ini.seen) = ini.next - 1
  /\ ini.phase = "idle" => Len(ini.seen) = Len(ini.dirs)
  /\ \A k \in 1..Len(ini.seen) :
       LET entry == ini.seen[k]
           from == LoadedFrom(ini.loaded, ini.dirs[k])
       IN IF Faulty(entry) THEN from = {}
          ELSE /\ Cardinality(from) = 1
               /\ \A j \in from :
                    ini.loaded[j].metadata.name = entry.meta.name
               /\ entry.meta.name \in Names(plugins)

\* a finished scan whose first candidate has unparseable metadata and whose
\* second candidate was loaded
C1_Witness ==
  /\ last.op = "initialize" /\ last.outcome = "ok"
  /\ Len(ini.seen) = 2
  /\ ini.seen[1].meta.st = "garbage"
  /\ Len(ini.loaded) = 1
  /\ ini.loaded[1].path = ini.dirs[2]

\* The plugins that own a key, by the key scheme name:command
Owners(map, key) ==
  {i \in 1..Len(map) :
     \E c \in 1..Len(map[i].metadata.commands) :
       commandKey(map[i].metadata.name, map[i].metadata.commands[c].name) = key}

\* C2: executeCommand fails with "Command not found" and no text when the key
\* is not registered, with "Plugin is disabled" and no text when the owning
\* plugin is disabled, and returns text only for a registered key of an
\* enabled plugin.
C2_ExecuteLookup ==
  last.op = "executeCommand" =>
    LET owners == Owners(plugins, last.id)
    IN IF owners = {}
       THEN /\ last.outcome = "throw"
            /\ last.err = "Command not found"
            /\ last.text = <<>>
       ELSE IF \E i \in owners : ~plugins[i].enabled
       THEN /\ last.outcome = "throw"
            /\ last.err = "Plugin is disabled"
            /\ last.text = <<>>
       ELSE last.outcome = "ok"

\* executeCommand on a registered key of a disabled plugin
C2_Witness ==
  /\ last.op = "executeCommand"
  /\ last.err = "Plugin is disabled"
  /\ Owners(plugins, last.id) # {}

\* The command a key addresses, for a key that has an owner
CommandOf(map, key) ==
  LET i == CHOOSE i \in Owners(map, key) : TRUE
      c == CHOOSE c \in 1..Len(map[i].metadata.commands) :
             commandKey(map[i].metadata.name,
                        map[i].metadata.commands[c].name) = key
  IN map[i].metadata.commands[c]

\* every occurrence of pattern replaced by the text value itself
RECURSIVE literalReplaceAll(_, _, _)
literalReplaceAll(text, pattern, value) ==
  LET i == IndexOf(text, pattern, 1)
  IN IF i = 0 THEN text
     ELSE Sub(text, 1, i - 1) \o value
          \o literalReplaceAll(Sub(text, i + Len(pattern), Len(text)),
                               pattern, value)

\* The substitution the specification describes: args[i] if supplied, else
\* the declared default, else the empty string, for any argument list
RECURSIVE claimSubstitute(_, _, _, _)
claimSubstitute(prompt, parameters, list, index) ==
  IF index > Len(parameters) THEN prompt
  ELSE claimSubstitute(
         literalReplaceAll(prompt, placeholder(parameters[index].name),
                           IF index <= Len(list) THEN list[index]
                           ELSE IF parameters[index].hasDefault
                           THEN parameters[index].default
                           ELSE <<>>),
         parameters, list, index + 1)

\* C3: for a registered command of an enabled plugin, executeCommand returns
\* the prompt with every {{parameterName}} replaced by args[i] if supplied,
\* else by the declared default, else by the empty string, for every args
\* value, an empty or omitted list included.
C3_Substitution ==
  (last.op = "executeCommand" /\ last.outcome = "ok") =>
    LET command == CommandOf(plugins, last.id)
    IN last.text = claimSubstitute(command.prompt, command.parameters.list,
                                   last.args.list, 1)

\* C4: two plugins registered under one identifier leave one registry entry
\* for it, the later-registered one: identifiers are unique in the registry,
\* and for every plugin the scan has loaded, getPlugin, listPlugins and
\* getSlashCommands show the metadata and the commands of the last plugin
\* loaded under that name and no command of an earlier one.
C4_LastRegisteredWins ==
  /\ \A i, j \in 1..Len(plugins) :
       plugins[i].metadata.name = plugins[j].metadata.name => i = j
  /\ \A k \in 1..Len(ini.loaded) :
       LET name == ini.loaded[k].metadata.name
           later == {j \in k..Len(ini.loaded) :
                       ini.loaded[j].metadata.name = name}
           winner == ini.loaded[CHOOSE x \in later : \A y \in later : y <= x]
           got == getPlugin(plugins, name)
           listed == {i \in 1..Len(getAllPlugins(plugins)) :
                        getAllPlugins(plugins)[i].metadata.name = name}
           commands == getSlashCommands(plugins)
       IN /\ got.has
          /\ got.plugin.metadata = winner.metadata
          /\ got.plugin.path = winner.path
          /\ Cardinality(listed) = 1
          /\ \A i \in listed :
               getAllPlugins(plugins)[i].metadata = winner.metadata
          /\ {commands[e].key : e \in
                {e \in 1..Len(commands) :
                   plugins[commands[e].plugin].metadata.name = name}}
             = {commandKey(name, winner.metadata.commands[c].name) :
                  c \in 1..Len(winner.metadata.commands)}

\* a scan that loaded two plugins of one name with different commands
C4_Witness ==
  /\ Len(ini.loaded) = 2
  /\ ini.loaded[1].metadata.name = ini.loaded[2].metadata.name
  /\ ini.loaded[1].metadata.commands # ini.loaded[2].metadata.commands
  /\ Len(plugins) = 1

\* C5: right after a completed initialize() and after a setPluginEnabled that
\* returned true, registry.json holds one {id, enabled, installedVersion}
\* entry per plugin of the registry and no other entry, with the plugin's
\* name, current flag and version.
C5_PersistedInFull ==
  ((last.op = "initialize" /\ last.outcome = "ok")
   \/ (last.op = "setPluginEnabled" /\ last.outcome = "true")) =>
    /\ file.kind = "json"
    /\ file.json.version = ConfigVersion
    /\ Len(file.json.plugins) = Len(plugins)
    /\ \A i \in 1..Len(plugins) :
         \E k \in 1..Len(file.json.plugins) :
           /\ file.json.plugins[k].id = plugins[i].metadata.name
           /\ file.json.plugins[k].enabled = plugins[i].enabled
           /\ file.json.plugins[k].installedVersion
                = plugins[i].metadata.version
           /\ \A m \in 1..Len(file.json.plugins) :
                file.json.plugins[m].id = plugins[i].metadata.name => m = k
    /\ \A k \in 1..Len(file.json.plugins) :
         file.json.plugins[k].id \in Names(plugins)

\* a disable that returned true with two plugins registered
C5_Witness ==
  /\ last.op = "setPluginEnabled" /\ last.outcome = "true"
  /\ ~last.flag
  /\ Len(plugins) = 2

\* C6: setPluginEnabled for an id that is not registered returns false,
\* writes no file and changes no plugin.
C6_UnknownIdNoEffect ==
  [][\A id \in PluginIds, enabled \in BOOLEAN :
       (id \notin Names(plugins) /\ SetPluginEnabled(id, enabled)) =>
         /\ last'.outcome = "false"
         /\ plugins' = plugins
         /\ file' = file
         /\ registry' = registry]_vars

\* setPluginEnabled returned false while the registry has plugins
C6_Witness ==
  /\ last.op = "setPluginEnabled" /\ last.outcome = "false"
  /\ last.id \notin Names(plugins)
  /\ plugins # <<>>

\* The text of the file name.md of a commands directory, <<>> without one
PromptFile(cmds, name) ==
  LET idx == {k \in 1..Len(cmds.files) : cmds.files[k].name = name \o MdExt}
  IN IF cmds.kind # "dir" \/ idx = {} THEN <<>>
     ELSE cmds.files[Min(idx)].content

\* C7: a plugin whose metadata declares a non-empty commands array is loaded
\* with exactly the declared commands (names, descriptions, parameters and
\* defaults), each with the text of its same-named .md file as prompt, or an
\* empty prompt without such a file. The tree does not change under Spec, so
\* a registered plugin was loaded from the entry now at its path.
C7_DeclaredCommands ==
  \A i \in 1..Len(plugins) :
    LET entry == fs.entries[plugins[i].path]
        declared == entry.meta.commands
    IN declared # <<>> =>
         plugins[i].metadata.commands =
           [k \in 1..Len(declared) |->
              [declared[k] EXCEPT
                 !.prompt = PromptFile(entry.cmds, declared[k].name)]]

KeysOfMetadata(metas) ==
  UNION {{commandKey(metas[i].name, metas[i].commands[c].name) :
            c \in 1..Len(metas[i].commands)} : i \in 1..Len(metas)}

\* C8: loading is idempotent. When a second or later initialization has
\* completed over a tree that did not change since an earlier one started
\* (hist.runs = 2, until the next initialization starts), the registry has
\* the plugin identifiers, the metadata per plugin and the command keys it
\* had when the earlier one completed.
C8_Idempotent ==
  hist.runs = 2 =>
    /\ MetadataOf(plugins) = hist.meta
    /\ Names(plugins) = {hist.meta[i].name : i \in 1..Len(hist.meta)}
    /\ LET commands == getSlashCommands(plugins)
       IN {commands[e].key : e \in 1..Len(commands)}
          = KeysOfMetadata(hist.meta)

\* a second initialization has completed over a tree of two plugins of one
\* name: both were loaded again and one is registered
C8_Witness ==
  /\ hist.runs = 2
  /\ Len(ini.loaded) = 2
  /\ Len(plugins) = 1
  /\ last.op = "initialize" /\ last.outcome = "ok"

\* C9: getStats reports totalPlugins = N, the number of registered plugins,
\* and enabledPlugins = N - k, k the number of them that are disabled, so
\* that 0 <= enabledPlugins <= totalPlugins.
C9_Stats ==
  last.op = "getStats" =>
    LET N == Cardinality(Names(plugins))
        k == Cardinality({i \in 1..Len(plugins) : ~plugins[i].enabled})
    IN /\ last.stats.totalPlugins = N
       /\ last.stats.enabledPlugins = N - k
       /\ 0 <= last.stats.enabledPlugins
       /\ last.stats.enabledPlugins <= last.stats.totalPlugins

\* getStats with two plugins registered and one of them disabled
C9_Witness ==
  /\ last.op = "getStats"
  /\ last.stats.totalPlugins = 2
  /\ last.stats.enabledPlugins = 1

NoSubdirectory(tree) ==
  \/ tree.root = "absent"
  \/ /\ tree.root = "dir"
     /\ \A d \in 1..MaxDirs : tree.entries[d].kind # "dir"

\* C10: a scan of a root that does not exist, or has no subdirectory, loads
\* no plugin and does not raise, and an entry of the root that is not a
\* directory is never a candidate. The tree does not change under SpecScan.
C10_EmptyRoot ==
  /\ \A k \in 1..Len(ini.dirs) : fs.entries[ini.dirs[k]].kind = "dir"
  /\ NoSubdirectory(fs) =>
       /\ ini.dirs = <<>>
       /\ ini.loaded = <<>>
       /\ plugins = <<>>
       /\ ~(last.op = "initialize" /\ last.outcome = "throw"
            /\ last.err \notin WriteOutcomes)

\* a completed initialize() on a root that holds only a file
C10_Witness ==
  /\ last.op = "initialize" /\ last.outcome = "ok"
  /\ fs.root = "dir"
  /\ \E d \in 1..MaxDirs : fs.entries[d].kind = "file"
  /\ NoSubdirectory(fs)
  /\ plugins = <<>>

\* C11: a registry.json that is absent or does not parse does not make the
\* constructor raise, and the in-memory registry is then the empty one.
C11_ReadFailureNonFatal ==
  last.op = "new" =>
    /\ last.outcome = "ok"
    /\ file.kind # "json" => registry = PluginRegistry(<<>>)

\* C12: whenever initialize() or setPluginEnabled for a registered id ends
\* with registry.json not holding the registry just computed (the write
\* failed), the call raised; it reports success only with the file written.
C12_WriteFailurePropagates ==
  [][/\ InitializeFinish =>
          /\ file' # FileJson(registry') => last'.outcome = "throw"
          /\ last'.outcome = "ok" => file' = FileJson(updateRegistry(plugins'))
     /\ \A id \in PluginIds, enabled \in BOOLEAN :
          (/\ last'.op = "setPluginEnabled" /\ last'.id = id
           /\ id \in Names(plugins)
           /\ SetPluginEnabled(id, enabled)) =>
            /\ file' # FileJson(registry') => last'.outcome = "throw"
            /\ last'.outcome # "false"
            /\ last'.outcome = "true"
                 => file' = FileJson(updateRegistry(plugins'))]_vars

\* a disable of a registered plugin raised and left the file behind
C12_Witness ==
  /\ last.op = "setPluginEnabled" /\ last.outcome = "throw"
  /\ ~last.flag
  /\ last.id \in Names(plugins)
  /\ file # FileJson(updateRegistry(plugins))
  /\ file.kind = "json"
\* The call of fn has returned
Done(fn) == probe.fn = fn /\ probe.st = "done"

\* A header map as the set of its <<key, value>> pairs; of two entries with
\* one key the later stands
MapOf(pairs) ==
  {<<pairs[i].key, pairs[i].value>> :
     i \in {i \in 1..Len(pairs) :
              \A j \in (i + 1)..Len(pairs) : pairs[j].key # pairs[i].key}}

Has(s, c) == \E i \in 1..Len(s) : s[i] = c

\* C13 as stated: the command file written from any header map and any body
\* parses back into that header map and that body.
C13_RoundTrip ==
  (Done("parseFrontmatter") /\ probe.origin.built) =>
    /\ MapOf(probe.output.frontmatter) = MapOf(probe.origin.header)
    /\ probe.output.body = probe.origin.body

CleanKey(k) ==
  /\ k # <<>>
  /\ Trim(k) = k
  /\ ~Has(k, ":")
  /\ ~Has(k, NL)
  /\ k # ProtoKey

CleanValue(v) == Trim(v) = v /\ ~Has(v, NL)

CleanHeader(h) ==
  /\ h # <<>>
  /\ \A i \in 1..Len(h) : CleanKey(h[i].key) /\ CleanValue(h[i].value)

\* C13 as amended: the round trip holds for every body and every header map
\* that has at least one entry, whose keys are non-empty, other than
\* __proto__, without colon, line break or surrounding white space, and
\* whose values have no line break and no surrounding white space.
C13_RoundTripClean ==
  (Done("parseFrontmatter") /\ probe.origin.built
   /\ CleanHeader(probe.origin.header)) =>
    /\ MapOf(probe.output.frontmatter) = MapOf(probe.origin.header)
    /\ probe.output.body = probe.origin.body

\* two clean entries, one value with a colon, and a body that holds a
\* delimiter line of its own
C13_Witness ==
  /\ Done("parseFrontmatter") /\ probe.origin.built
  /\ CleanHeader(probe.origin.header)
  /\ Len(probe.origin.header) = 2
  /\ \E i \in 1..2 : Has(probe.origin.header[i].value, ":")
  /\ probe.origin.body = CloseDelim \o <<"k", ":", " ", "v">>
  /\ Len(probe.output.frontmatter) = 2

\* The header of a text, in the words of the specification: the first line
\* is the delimiter, a block of one or more lines follows, then a delimiter
\* line ended by a line break. closeLine is the first such line, 0 if none.
closeLine(lines) ==
  LET js == {j \in 3..(Len(lines) - 1) : lines[j] = Delim}
  IN IF lines[1] = Delim /\ js # {} THEN Min(js) ELSE 0

firstColon(line) ==
  CHOOSE c \in 1..Len(line) :
    line[c] = ":" /\ \A d \in 1..(c - 1) : line[d] # ":"

\* split at the first colon, trim both sides
keyValue(line) ==
  [key |-> Trim(Sub(line, 1, firstColon(line) - 1)),
   value |-> Trim(Sub(line, firstColon(line) + 1, Len(line)))]

\* the map of a block: every line with a colon gives an entry
blockMap(block) ==
  LET kv == SelectSeq(block, LAMBDA l : Has(l, ":"))
  IN MapOf([i \in 1..Len(kv) |-> keyValue(kv[i])])

\* the map of a block: every line with a colon after at least one character
\* gives an entry, unless its key is __proto__
blockMapKeyed(block) ==
  LET kv == SelectSeq(block, LAMBDA l : Has(l, ":") /\ l[1] # ":"
                                        /\ keyValue(l).key # ProtoKey)
  IN MapOf([i \in 1..Len(kv) |-> keyValue(kv[i])])

\* C14 as stated: on a text with a header, parseFrontmatter returns the map
\* of the block's lines, split at the first colon and trimmed, lines without
\* a colon ignored, and the text after the closing delimiter line; on every
\* other text the empty map and the text itself.
C14_ParseTotal ==
  Done("parseFrontmatter") =>
    LET lines == Split(probe.input, NL)
        j == closeLine(lines)
    IN IF j = 0
       THEN /\ probe.output.frontmatter = <<>>
            /\ probe.output.body = probe.input
       ELSE /\ MapOf(probe.output.frontmatter)
                 = blockMap(SubSeq(lines, 2, j - 1))
            /\ probe.output.body = Join(SubSeq(lines, j + 1, Len(lines)), NL)

\* C14 as amended: the same, where a line also gives no entry when nothing
\* stands before its first colon or when its key is __proto__.
C14_ParseTotalKeyed ==
  Done("parseFrontmatter") =>
    LET lines == Split(probe.input, NL)
        j == closeLine(lines)
    IN IF j = 0
       THEN /\ probe.output.frontmatter = <<>>
            /\ probe.output.body = probe.input
       ELSE /\ MapOf(probe.output.frontmatter)
                 = blockMapKeyed(SubSeq(lines, 2, j - 1))
            /\ probe.output.body = Join(SubSeq(lines, j + 1, Len(lines)), NL)

\* a header whose block has a "k: v" line and a line that starts with a
\* colon, and a body
C14_Witness ==
  /\ Done("parseFrontmatter")
  /\ probe.input
       = Join(<<Delim, <<"k", ":", " ", "v">>, <<":", "v">>, Delim, <<"k">> >>,
              NL)
  /\ MapOf(probe.output.frontmatter) = {<< <<"k">>, <<"v">> >>}
  /\ probe.output.body = <<"k">>

\* The bracketed tokens of a hint: "[", one or more characters other than
\* "]", then "]", taken from left to right. A "]" ends a token when a "["
\* stands at least two places before it and after the "]" before it; the
\* token starts at the first such "[".
prevClose(h, j) ==
  LET ps == {p \in 1..(j - 1) : h[p] = "]"}
  IN IF ps = {} THEN 0 ELSE CHOOSE x \in ps : \A y \in ps : y <= x

tokenOpens(h, j) == {i \in (prevClose(h, j) + 1)..(j - 2) : h[i] = "["}

tokenEnds(h) == {j \in 1..Len(h) : h[j] = "]" /\ tokenOpens(h, j) # {}}

tokenText(h, j) == Sub(h, Min(tokenOpens(h, j)) + 1, j - 1)

tokenRank(h, j) == Cardinality({e \in tokenEnds(h) : e <= j})

ParameterSuffix == <<" ", "p", "a", "r", "a", "m", "e", "t", "e", "r">>

\* C15 as stated: one parameter per bracketed token, in the order of the
\* tokens, named by the text between the token's brackets, typed string,
\* described as "<name> parameter", the first one required.
C15_OnePerToken ==
  (Done("parseArgumentHint") /\ probe.input.has
   /\ tokenEnds(probe.input.value) # {}) =>
    LET h == probe.input.value
        out == probe.output
    IN /\ out.defined
       /\ Len(out.list) = Cardinality(tokenEnds(h))
       /\ \A j \in tokenEnds(h) :
            LET param == out.list[tokenRank(h, j)]
            IN /\ param.name = tokenText(h, j)
               /\ param.type = "string"
               /\ param.description = param.name \o ParameterSuffix
       /\ out.list[1].required

\* C15 as amended: the same, each parameter named by the text between the
\* token's brackets without the "[" that text holds.
C15_OnePerTokenStripped ==
  (Done("parseArgumentHint") /\ probe.input.has
   /\ tokenEnds(probe.input.value) # {}) =>
    LET h == probe.input.value
        out == probe.output
    IN /\ out.defined
       /\ Len(out.list) = Cardinality(tokenEnds(h))
       /\ \A j \in tokenEnds(h) :
            LET param == out.list[tokenRank(h, j)]
            IN /\ param.name
                    = SelectSeq(tokenText(h, j), LAMBDA c : c # "[")
               /\ param.type = "string"
               /\ param.description = param.name \o ParameterSuffix
       /\ out.list[1].required

\* "[f][d]" gave f then d, f required
C15_Witness ==
  /\ Done("parseArgumentHint")
  /\ probe.input.value = <<"[", "f", "]", "[", "d", "]">>
  /\ Len(probe.output.list) = 2
  /\ probe.output.list[1].name = <<"f">>
  /\ probe.output.list[2].name = <<"d">>
  /\ probe.output.list[1].required

\* C16: parseArgumentHint returns undefined for an undefined hint, for the
\* empty hint and for a hint without bracketed token, and what it returns
\* otherwise is never the empty list.
C16_UndefinedNotEmpty ==
  Done("parseArgumentHint") =>
    /\ (~probe.input.has \/ probe.input.value = <<>>
        \/ tokenEnds(probe.input.value) = {}) => ~probe.output.defined
    /\ probe.output.defined => probe.output.list # <<>>

\* a hint with brackets and no token, "[]f[", gave undefined
C16_Witness ==
  /\ Done("parseArgumentHint")
  /\ probe.input.has
  /\ probe.input.value = <<"[", "]", "f", "[">>
  /\ ~probe.output.defined

\* The validator of the specification
accepts(metadata) ==
  /\ metadata.name # <<>>
  /\ metadata.version # <<>>
  /\ metadata.description # <<>>
  /\ metadata.commandsIs \in {"absent", "list"}

\* C17: validateMetadata accepts a record exactly when name, version and
\* description are non-empty and commands, if given, is a list; a candidate
\* whose record it must reject is not loaded.
C17_Validator ==
  /\ Done("validateMetadata") => (probe.output <=> accepts(probe.input))
  /\ (Done("loadPlugin") /\ probe.input.meta.st = "json"
      /\ ~accepts(probe.input.meta)) => probe.output.kind # "ok"
\* C18: a candidate with valid metadata and no commands directory is not
\* registered.
C18_NoCommandsDirSkipped ==
  \A i \in 1..Len(plugins) :
    fs.entries[plugins[i].path].cmds.kind # "absent"

RECURSIVE countCommands(_, _)
countCommands(map, i) ==
  IF i > Len(map) THEN 0
  ELSE Len(map[i].metadata.commands) + countCommands(map, i + 1)

\* C19: every command C of every registered plugin P is what the key "P:C"
\* resolves to in getSlashCommands and in executeCommand, and there are as
\* many keys as commands.
C19_CollisionFree ==
  LET commands == getSlashCommands(plugins)
  IN /\ \A i \in 1..Len(plugins) :
          \A c \in 1..Len(plugins[i].metadata.commands) :
            LET key == commandKey(plugins[i].metadata.name,
                                  plugins[i].metadata.commands[c].name)
            IN /\ \E e \in 1..Len(commands) :
                    /\ commands[e].key = key
                    /\ commands[e].plugin = i
                    /\ commands[e].command = c
               /\ plugins[i].enabled =>
                    executeCommand(plugins, key, NoArgs).text
                      = plugins[i].metadata.commands[c].prompt
     /\ Len(commands) = countCommands(plugins, 1)

\* C20: a call of listPlugins, getSlashCommands, getPlugin, getStats or
\* executeCommand leaves every plugin of the registry, its flag, its
\* commands and their prompts, the registry summary and registry.json as
\* they were.
C20_PureReads ==
  [][(/\ last' # last
      /\ last'.op \in {"listPlugins", "getSlashCommands", "getPlugin",
                       "getStats", "executeCommand"})
     => /\ plugins' = plugins
        /\ registry' = registry
        /\ file' = file]_vars

\* executeCommand returned a prompt with a value substituted, the stored
\* prompt still holds the placeholder, and one plugin is disabled
C20_Witness ==
  /\ last.op = "executeCommand" /\ last.outcome = "ok"
  /\ last.id = KeyAHH
  /\ last.text = <<"H", "i", " ", "v">>
  /\ \E i \in 1..Len(plugins) :
       /\ plugins[i].metadata.name = NameAH
       /\ plugins[i].metadata.commands[1].prompt
            = <<"H", "i", " ", "{", "{", "n", "}", "}">>
  /\ \E i \in 1..Len(plugins) : ~plugins[i].enabled

\* The enabled flag of the registered plugin of a name
FlagOf(map, name) == map[mapIndex(map, name)].enabled

\* The registry entry of every name but one
Others(map, name) == SelectSeq(map, LAMBDA p : p.metadata.name # name)

\* C21 as stated: a plugin is enabled when first registered, and its flag
\* changes only in a setPluginEnabled(id, b) for its own id that returns true,
\* which sets it to b and changes no other flag and no metadata; no other
\* operation, a further initialize() included, changes it.
C21_FlagOnlyBySet ==
  [][/\ \A name \in Names(plugins') \ Names(plugins) : FlagOf(plugins', name)
     /\ \A name \in Names(plugins) :
          (name \in Names(plugins')
           /\ FlagOf(plugins', name) # FlagOf(plugins, name)) =>
            /\ last'.op = "setPluginEnabled"
            /\ last'.outcome = "true"
            /\ last'.id = name
            /\ FlagOf(plugins', name) = last'.flag
            /\ Others(plugins', name) = Others(plugins, name)
            /\ MetadataOf(plugins') = MetadataOf(plugins)]_vars

\* C21, amended: the flag of a registered plugin changes only in a
\* setPluginEnabled(id, b) for its own id, whether the registry write then
\* succeeds or throws, which sets it to b and changes no other flag and no
\* metadata, or in the step of an initialize() that loads a plugin of its
\* name again, which replaces the entry by an enabled one and changes no
\* other entry; a plugin is enabled when first registered. Checked under
\* SpecRace.
C21_FlagBySetOrReload ==
  [][/\ \A name \in Names(plugins') \ Names(plugins) : FlagOf(plugins', name)
     /\ (last'.op = "setPluginEnabled" /\ last'.outcome \in {"true", "throw"})
          => FlagOf(plugins', last'.id) = last'.flag
     /\ \A name \in Names(plugins) :
          (name \in Names(plugins')
           /\ FlagOf(plugins', name) # FlagOf(plugins, name)) =>
            \/ /\ last'.op = "setPluginEnabled"
               /\ last'.outcome \in {"true", "throw"}
               /\ last'.id = name
               /\ FlagOf(plugins', name) = last'.flag
               /\ Others(plugins', name) = Others(plugins, name)
               /\ MetadataOf(plugins') = MetadataOf(plugins)
            \/ /\ last'.op = "initialize"
               /\ Len(ini'.loaded) = Len(ini.loaded) + 1
               /\ ini'.loaded[Len(ini'.loaded)].metadata.name = name
               /\ FlagOf(plugins', name)
               /\ Others(plugins', name) = Others(plugins, name)]_vars

\* an initialize() has loaded plugin a again and enabled it, while
\* registry.json still records the disable made before, and b stays disabled
C21_Witness ==
  /\ ini.phase = "loading"
  /\ \E k \in 1..Len(ini.loaded) : ini.loaded[k].metadata.name = NameA
  /\ NameA \in Names(plugins) /\ FlagOf(plugins, NameA)
  /\ NameB \in Names(plugins) /\ ~FlagOf(plugins, NameB)
  /\ file.kind = "json"
  /\ \E k \in 1..Len(file.json.plugins) :
       file.json.plugins[k].id = NameA /\ ~file.json.plugins[k].enabled

\* The "id" that the plugin.json of a registered plugin declares
DeclaredId(plugin) == fs.entries[plugin.path].meta.id

\* C22: a plugin whose plugin.json declares an id and a different name has
\* its commands registered under <id>:<command-name>: executeCommand on that
\* key finds the command, and getPlugin and setPluginEnabled accept the id.
\* The tree does not change under SpecRead.
C22_KeyedById ==
  \A i \in 1..Len(plugins) :
    LET id == DeclaredId(plugins[i])
    IN (id # <<>> /\ id # plugins[i].metadata.name) =>
         /\ getPlugin(plugins, id).has
         /\ loaderSetPluginEnabled(plugins, id, plugins[i].enabled).result
         /\ \A c \in 1..Len(plugins[i].metadata.commands) :
              executeCommand(plugins,
                             commandKey(id, plugins[i].metadata.commands[c].name),
                             NoArgs).err # "Command not found"

\* C23: within one initialize() the candidates are taken one at a time in
\* the order of the directory enumeration: each step of the scan reads the
\* next candidate and registers its plugin before the following one is
\* read; the plugins are registered in that order, so of two candidates of
\* one name the later-enumerated one is the one registered; and initialize()
\* writes registry.json in a single step, after the last candidate. The tree
\* does not change under SpecRace.
C23_SequentialScan ==
  [][/\ \A k \in 1..(Len(ini'.dirs) - 1) : ini'.dirs[k] < ini'.dirs[k + 1]
     /\ (ini.phase = "loading" /\ ini' # ini /\ ini'.phase = "loading") =>
          /\ ini'.dirs = ini.dirs
          /\ ini'.next = ini.next + 1
          /\ ini'.seen = Append(ini.seen, fs.entries[ini.dirs[ini.next]])
          /\ \/ ini'.loaded = ini.loaded /\ plugins' = plugins
             \/ /\ Len(ini'.loaded) = Len(ini.loaded) + 1
                /\ ini'.loaded[Len(ini'.loaded)].path = ini.dirs[ini.next]
                /\ getPlugin(plugins',
                             ini'.loaded[Len(ini'.loaded)].metadata.name).plugin
                     = ini'.loaded[Len(ini'.loaded)]
     /\ \A k \in 1..(Len(ini'.loaded) - 1) :
          ini'.loaded[k].path < ini'.loaded[k + 1].path
     /\ \A k \in 1..Len(ini'.loaded) :
          getPlugin(plugins', ini'.loaded[k].metadata.name).plugin.path
            >= ini'.loaded[k].path
     /\ (last'.op = "initialize" /\ file' # file) =>
          /\ ini.phase = "loading"
          /\ ini.next > Len(ini.dirs)
          /\ ini'.phase = "idle"
          /\ last'.outcome = "ok"
     /\ (last'.op = "initialize" /\ last'.outcome = "ok") =>
          /\ Len(ini'.seen) = Len(ini'.dirs)
          /\ file' = FileJson(updateRegistry(plugins'))]_vars

\* a completed initialize() over two candidates of one name: the second one
\* is registered and the file is written
C23_Witness ==
  /\ last.op = "initialize" /\ last.outcome = "ok"
  /\ Len(ini.dirs) = 2 /\ Len(ini.loaded) = 2
  /\ ini.loaded[1].metadata.name = ini.loaded[2].metadata.name
  /\ ini.loaded[1].metadata # ini.loaded[2].metadata
  /\ getPlugin(plugins, ini.loaded[2].metadata.name).plugin.path
       = ini.loaded[2].path
  /\ file = FileJson(updateRegistry(plugins))

\* C24: the enabled flags of an existing registry.json never reach the
\* plugins in memory. From the constructor on, whatever the file held, every
\* plugin an initialize() has loaded is enabled, and when initialize()
\* completes the file holds enabled = true for each of them and nothing of
\* what it held before.
C24_PersistedFlagsIgnored ==
  /\ \A i \in 1..Len(plugins) : plugins[i].enabled
  /\ (last.op = "initialize" /\ last.outcome = "ok") =>
       /\ file.kind = "json"
       /\ \A k \in 1..Len(ini.loaded) :
            \E m \in 1..Len(file.json.plugins) :
              /\ file.json.plugins[m].id = ini.loaded[k].metadata.name
              /\ file.json.plugins[m].enabled
       /\ \A m \in 1..Len(file.json.plugins) :
            /\ file.json.plugins[m].enabled
            /\ file.json.plugins[m].id \in Names(plugins)

\* every candidate is loaded and plugin a is enabled in memory, while the
\* registry read by the constructor and registry.json, not yet rewritten,
\* both record a as disabled
C24_Witness ==
  /\ ini.phase = "loading" /\ ini.next > Len(ini.dirs)
  /\ \E k \in 1..Len(ini.loaded) : ini.loaded[k].metadata.name = NameA
  /\ FlagOf(plugins, NameA)
  /\ file.kind = "json"
  /\ registry = file.json
  /\ \E m \in 1..Len(registry.plugins) :
       registry.plugins[m].id = NameA /\ ~registry.plugins[m].enabled

\* The catalog keys of the commands of the registered plugin of a name
KeysOf(map, name) ==
  {commandKey(name, map[mapIndex(map, name)].metadata.commands[c].name) :
     c \in 1..Len(map[mapIndex(map, name)].metadata.commands)}

\* executeCommand fails with the disabled error on every key of the plugin
Blocked(map, name) ==
  /\ KeysOf(map, name) # {}
  /\ \A key \in KeysOf(map, name) :
       LET r == executeCommand(map, key, NoArgs)
       IN r.outcome = "throw" /\ r.err = "Plugin is disabled"

\* executeCommand returns a text on every key of the plugin
Runs(map, name) ==
  \A key \in KeysOf(map, name) : executeCommand(map, key, NoArgs).outcome = "ok"

\* The step has loaded a plugin of the name
Reloaded(name) ==
  /\ last'.op = "initialize"
  /\ Len(ini'.loaded) = Len(ini.loaded) + 1
  /\ ini'.loaded[Len(ini'.loaded)].metadata.name = name

\* C25 as stated: after a setPluginEnabled(id, false) that returned true,
\* executeCommand fails with the disabled error on every key of id until a
\* setPluginEnabled(id, true) that returned true, or an initialize() that
\* loads id again, after which it returns a text again; the keys of the other
\* plugins are not affected.
C25_DisabledUntilEnabled ==
  [][\A name \in Names(plugins') :
       /\ (last'.op = "setPluginEnabled" /\ last'.id = name
           /\ last'.outcome = "true" /\ KeysOf(plugins', name) # {})
            => IF last'.flag THEN Runs(plugins', name)
               ELSE Blocked(plugins', name)
       /\ (name \in Names(plugins) /\ Blocked(plugins, name)
           /\ ~Blocked(plugins', name)) =>
            /\ \/ /\ last'.op = "setPluginEnabled" /\ last'.id = name
                  /\ last'.flag /\ last'.outcome = "true"
               \/ Reloaded(name)
            /\ Runs(plugins', name)
       /\ (last'.op = "setPluginEnabled" /\ last'.id = name
           /\ plugins' # plugins)
            => Others(plugins', name) = Others(plugins, name)]_vars

\* C25, amended: the disabled period of id also ends with a
\* setPluginEnabled(id, true) whose registry write throws; and a
\* setPluginEnabled(id, false) whose write throws starts one.
C25_DisabledUntilFlagSet ==
  [][\A name \in Names(plugins') :
       /\ (last'.op = "setPluginEnabled" /\ last'.id = name
           /\ last'.outcome \in {"true", "throw"}
           /\ KeysOf(plugins', name) # {})
            => IF last'.flag THEN Runs(plugins', name)
               ELSE Blocked(plugins', name)
       /\ (name \in Names(plugins) /\ Blocked(plugins, name)
           /\ ~Blocked(plugins', name)) =>
            /\ \/ /\ last'.op = "setPluginEnabled" /\ last'.id = name
                  /\ last'.flag /\ last'.outcome \in {"true", "throw"}
               \/ Reloaded(name)
            /\ Runs(plugins', name)
       /\ (last'.op = "setPluginEnabled" /\ last'.id = name
           /\ plugins' # plugins)
            => Others(plugins', name) = Others(plugins, name)]_vars

\* plugin a is disabled and a call on b:p has just returned its text, while
\* every key of a fails with the disabled error
C25_Witness ==
  /\ last.op = "executeCommand" /\ last.id = KeyBP /\ last.outcome = "ok"
  /\ NameA \in Names(plugins)
  /\ Blocked(plugins, NameA)
  /\ Runs(plugins, NameB)

\* The directory a registered plugin was loaded from is gone, or its
\* metadata is no longer valid, in the tree given
Stale(tree, plugin) == tree.entries[plugin.path] \in ChangedEntries

\* C26: the registered names only grow. No step removes a plugin, its entry
\* changes only in a setPluginEnabled for its name or when an initialize()
\* loads a plugin of its name, so a plugin whose directory was deleted or
\* whose metadata became invalid keeps its metadata and flag through a later
\* initialize(); it stays listed and counted, a completed initialize() writes
\* it to registry.json, and its commands run while it is enabled.
C26_NeverRemoved ==
  [][/\ Names(plugins) \subseteq Names(plugins')
     /\ \A name \in Names(plugins) :
          (name \in Names(plugins')
           /\ getPlugin(plugins', name).plugin # getPlugin(plugins, name).plugin)
            => \/ last'.op = "setPluginEnabled" /\ last'.id = name
               \/ Reloaded(name)
     /\ getStats(plugins').totalPlugins >= getStats(plugins).totalPlugins
     /\ \A i \in 1..Len(plugins') :
          Stale(fs', plugins'[i]) =>
            /\ \E k \in 1..Len(getAllPlugins(plugins')) :
                 getAllPlugins(plugins')[k] = plugins'[i]
            /\ plugins'[i].enabled => Runs(plugins', plugins'[i].metadata.name)
            /\ (last'.op = "initialize" /\ last'.outcome = "ok") =>
                 \E m \in 1..Len(file'.json.plugins) :
                   /\ file'.json.plugins[m].id = plugins'[i].metadata.name
                   /\ file'.json.plugins[m].enabled = plugins'[i].enabled]_vars

\* an initialize() that started after the directory of plugin a was deleted
\* has completed: a is registered and listed, its command runs and
\* registry.json holds it
C26_Witness ==
  /\ last.op = "initialize" /\ last.outcome = "ok"
  /\ fsChanges >= 1 /\ ~hist.dirty
  /\ \E i \in 1..Len(plugins) :
       /\ plugins[i].metadata.name = NameA
       /\ fs.entries[plugins[i].path] = E_None
       /\ KeysOf(plugins, NameA) # {}
       /\ Runs(plugins, NameA)
       /\ \E m \in 1..Len(file.json.plugins) : file.json.plugins[m].id = NameA

\* C27 as stated: when the registry write fails inside setPluginEnabled(id,
\* b) for a registered id, the flag in memory is b and stays b, the later
\* reads observe b, and registry.json still holds what it held before.
C27_NoRollback ==
  [][(last'.op = "setPluginEnabled" /\ last'.outcome = "throw") =>
       /\ last'.id \in Names(plugins')
       /\ FlagOf(plugins', last'.id) = last'.flag
       /\ getPlugin(plugins', last'.id).plugin.enabled = last'.flag
       /\ KeysOf(plugins', last'.id) # {} =>
            IF last'.flag THEN Runs(plugins', last'.id)
            ELSE Blocked(plugins', last'.id)
       /\ file' = file]_vars

\* C27, amended: registry.json does not hold the new registry: it holds what
\* it held before when the file could not be opened, and is left empty or
\* cut short, no longer parseable, when the write failed after the file was
\* opened. The flag in memory is b all the same, and the registry in memory
\* has it.
C27_NoRollbackFileNotNew ==
  [][(last'.op = "setPluginEnabled" /\ last'.outcome = "throw") =>
       /\ last'.id \in Names(plugins')
       /\ FlagOf(plugins', last'.id) = last'.flag
       /\ getPlugin(plugins', last'.id).plugin.enabled = last'.flag
       /\ KeysOf(plugins', last'.id) # {} =>
            IF last'.flag THEN Runs(plugins', last'.id)
            ELSE Blocked(plugins', last'.id)
       /\ registry' = updateRegistry(plugins')
       /\ \/ file' = file /\ last'.err = "EACCES"
          \/ file' = FileGarbage /\ last'.err = "ENOSPC"]_vars

\* after a disable of plugin a that threw on the write, getPlugin returns a
\* as disabled, while registry.json still records a as enabled
C27_Witness ==
  /\ last.op = "getPlugin" /\ last.id = NameA
  /\ last.result.has /\ ~last.result.plugin.enabled
  /\ registry = updateRegistry(plugins)
  /\ file.kind = "json"
  /\ file.json # registry
  /\ \E m \in 1..Len(file.json.plugins) :
       file.json.plugins[m].id = NameA /\ file.json.plugins[m].enabled

\* C28: the substitution runs parameter by parameter, in declared order,
\* over the running result. The text returned for a supplied argument list
\* is the prompt after replacing the placeholder of the first parameter
\* everywhere, then that of the second in the result, and so on: a first
\* value "{{y}}" is itself replaced by the value of the later parameter y,
\* and a second value "{{x}}" stays in the output. The values of the model's
\* calls under SpecCalls hold no "$".
C28_SequentialSubstitution ==
  (last.op = "executeCommand" /\ last.outcome = "ok" /\ last.args.given) =>
    LET command == CommandOf(plugins, last.id)
    IN command.parameters.defined =>
         /\ last.text = claimSubstitute(command.prompt, command.parameters.list,
                                        last.args.list, 1)
         /\ (last.id = KeyAG /\ last.args.list = <<HoleY, <<"w">> >>)
              => last.text = <<"w", "+", "w">>
         /\ (last.id = KeyAG /\ last.args.list = << <<"v">>, HoleX>>)
              => last.text = <<"v", "+">> \o HoleX

\* a:g has returned "w+w" for the values "{{y}}" and "w"
C28_Witness ==
  /\ last.op = "executeCommand" /\ last.outcome = "ok"
  /\ last.id = KeyAG
  /\ last.args = Args(<<HoleY, <<"w">> >>)
  /\ last.text = <<"w", "+", "w">>

\* The keys of getSlashCommands(), in order
CatalogKeys(map) ==
  [e \in 1..Len(getSlashCommands(map)) |-> getSlashCommands(map)[e].key]

\* C29: disabling removes nothing from the catalog. A setPluginEnabled call,
\* whatever it returns, leaves the keys of getSlashCommands() and
\* getStats().totalCommands as they were, so after any sequence of such calls
\* they are what they were after the last step of an initialize().
C29_CatalogKeepsDisabled ==
  [][last'.op = "setPluginEnabled" =>
       /\ CatalogKeys(plugins') = CatalogKeys(plugins)
       /\ getStats(plugins').totalCommands = getStats(plugins).totalCommands
       /\ getStats(plugins').totalPlugins = getStats(plugins).totalPlugins]_vars

\* both plugins have been disabled and the catalog still holds the two
\* commands of a and the command of b
C29_Witness ==
  /\ last.op = "setPluginEnabled" /\ last.outcome = "true" /\ ~last.flag
  /\ Len(plugins) = 2
  /\ \A i \in 1..Len(plugins) : ~plugins[i].enabled
  /\ {CatalogKeys(plugins)[e] : e \in 1..Len(CatalogKeys(plugins))}
       = {KeyAH, KeyAG, KeyBP}
  /\ getStats(plugins).totalCommands = 3
  /\ getStats(plugins).enabledPlugins = 0

\* C30: initialize() is not atomic with respect to setPluginEnabled. The
\* step of an initialize() that loads a plugin of a name registers it
\* enabled, whatever the flag was, so a disable made before that step, while
\* the initialize() was in flight or earlier, is lost; every other step of
\* the initialize() leaves the flag of the name as it is, so a disable made
\* after that step stands; and the last step writes the flags as they are in
\* memory to registry.json.
C30_DisableLostOnReload ==
  [][\A name \in Names(plugins) :
       /\ Reloaded(name) => FlagOf(plugins', name)
       /\ (last'.op = "initialize" /\ ~Reloaded(name)) =>
            FlagOf(plugins', name) = FlagOf(plugins, name)
       /\ (last'.op = "initialize" /\ last'.outcome = "ok") =>
            \E m \in 1..Len(file'.json.plugins) :
              /\ file'.json.plugins[m].id = name
              /\ file'.json.plugins[m].enabled = FlagOf(plugins, name)]_vars

\* a re-initialization over two candidates named a is in flight: the file
\* holds the disable of a that returned true between the two loads (it names
\* the version of the first candidate), and the second load has registered a
\* enabled
C30_Witness ==
  /\ hist.runs = 1
  /\ ini.phase = "loading"
  /\ Len(ini.loaded) = 2
  /\ getPlugin(plugins, NameA).has
  /\ getPlugin(plugins, NameA).plugin.metadata.version = V2
  /\ getPlugin(plugins, NameA).plugin.enabled
  /\ file = FileJson(PluginRegistry(<<Summary(NameA, FALSE, V1)>>))

====
